---- MODULE Spec2Model ----
(***************************************************************************)
(* A model of the CyclicCode class of cyclic_codes.h (decoding by the      *)
(* lightest syndrome, "Strategy A") and of cyclic_codes_2.h (decoding by   *)
(* the burst length of the syndromes, "Strategy B").  The two headers      *)
(* define the same class with the same constructor, encoder and            *)
(* membership test; they differ in decode_word.  The model keeps one       *)
(* object and offers both decode_word bodies as two operations.            *)
(*                                                                         *)
(* Words are C++ uint values.  A vector<uint> is a                          *)
(* sequence; the source's index i is the sequence's index i + 1.           *)
(* Console output (cout) is not modelled.                                  *)
(***************************************************************************)
EXTENDS Integers, Naturals, Sequences, FiniteSets, TLC

VARIABLES
  generator,         \* vector< uint > generator
  parity_check,      \* vector< uint > parity_check
  code_length,       \* uint code_length
  code_words,        \* vector< uint > code_words
  min_distance,      \* uint min_distance
  max_burst_length,  \* uint max_burst_length (cyclic_codes_2.h)
  built,             \* the members as the constructor left them
  pc,                \* "idle", or "returned" from the last call
  op,                \* the last call made on the object
  arg,               \* its argument
  ret,               \* its return value
  path,              \* the branch decode_word returned from
  which,             \* the index of the syndrome decode_word accepted
  rounds,            \* the desired lengths tried by the burst search
  mem                \* an earlier call, kept for comparison

fields == <<generator, parity_check, code_length, code_words, min_distance,
            max_burst_length>>

vars == <<generator, parity_check, code_length, code_words, min_distance,
          max_burst_length, built, pc, op, arg, ret, path, which, rounds,
          mem>>

----------------------------------------------------------------------------
(* Machine integers.  The source's uint has 32 bits; the model checker's   *)
(* integers are 32 bit signed, so the model keeps a narrower uint of       *)
(* UintWidth bits with the same wrap-around arithmetic.  The only values   *)
(* that reach the wrap are the sentinels (UINT_MAX) and the counter of     *)
(* the burst length search when it steps below zero.                       *)

UintWidth == 16

UINT_MAX == 2^UintWidth - 1

Wrap(x) == x % (2^UintWidth)

\* ( w >> i ) & 1
Bit(w, i) == (w \div (2^i)) % 2

\* a ^ b on uint
RECURSIVE Xor(_, _)
Xor(a, b) ==
  IF a = 0 THEN b
  ELSE IF b = 0 THEN a
  ELSE (((a % 2) + (b % 2)) % 2) + 2 * Xor(a \div 2, b \div 2)

\* a vector< uint > holds values: the sequence is built once, entry by entry
Vector(f) == <<>> \o f

\* a << s on uint, for s below the width (a larger count is undefined
\* behaviour; the codes of the catalogue have no more parity rows than bits)
ShiftLeft(a, s) == Wrap(a * (2^s))

----------------------------------------------------------------------------
(* Helpers of the class.                                                   *)

RECURSIVE find_power_loop(_, _, _, _)
find_power_loop(base, exponent, i, result) ==
  IF i < exponent
  THEN find_power_loop(base, exponent, i + 1, Wrap(result * base))
  ELSE result

find_power(base, exponent) ==
  IF exponent = 0 THEN 1 ELSE find_power_loop(base, exponent, 0, 1)

RECURSIVE hamming_loop(_, _, _, _)
hamming_loop(places_differ, n, place_value, acc) ==
  IF place_value < n
  THEN hamming_loop(places_differ, n, place_value + 1,
                    acc + Bit(places_differ, place_value))
  ELSE acc

\* counts the differing places among the low n bits only
hamming_distance(first_word, second_word, n) ==
  hamming_loop(Xor(first_word, second_word), n, 0, 0)

\* as dot_loop, with | where the source has & between the coordinates
RECURSIVE dot_loop_or(_, _, _, _, _)
dot_loop_or(word, row_word, n, row, dot_product) ==
  IF row < n
  THEN dot_loop_or(word, row_word, n, row + 1,
         Xor(dot_product,
             IF Bit(word, row) + Bit(row_word, row) > 0 THEN 1 ELSE 0))
  ELSE dot_product

RECURSIVE dot_loop(_, _, _, _, _)
dot_loop(word, row_word, n, row, dot_product) ==
  IF row < n
  THEN dot_loop(word, row_word, n, row + 1,
                Xor(dot_product, Bit(word, row) * Bit(row_word, row)))
  ELSE dot_product

\* vector_product of is_code_word: one dot product per parity row
vector_product(word, H, n) ==
  Vector([col1 \in 1..Len(H) |-> dot_loop(word, H[col1], n, 0, 0)])

is_zero_vector(product) ==
  \A this_word1 \in 1..Len(product) : product[this_word1] = 0

is_code_word(word, H, n) == is_zero_vector(vector_product(word, H, n))

----------------------------------------------------------------------------
(* The constructor.                                                        *)

\* the loop "for i = 0 .. 2^n - 1" over the range lo <= i < hi, the words
\* that pass pushed in the order of i.  The range is walked in two halves
\* to keep the evaluation shallow.
RECURSIVE enumerate_loop(_, _, _, _)
enumerate_loop(H, n, lo, hi) ==
  IF lo >= hi THEN <<>>
  ELSE IF hi = lo + 1
  THEN (IF is_code_word(lo, H, n) THEN <<lo>> ELSE <<>>)
  ELSE LET mid == (lo + hi) \div 2
       IN enumerate_loop(H, n, lo, mid) \o enumerate_loop(H, n, mid, hi)

\* as build_code_words, the loop stopping one value early
build_code_words_short(H, n) ==
  enumerate_loop(H, n, 0, find_power(2, n) - 1)

\* code_words after the first loop of the constructor
build_code_words(H, n) == enumerate_loop(H, n, 0, find_power(2, n))

RECURSIVE distance_loop(_, _, _, _)
distance_loop(words, n, idx, distance) ==
  IF idx > Len(words) THEN distance
  ELSE LET word == words[idx]
           word_weight == hamming_distance(0, word, n)
       IN distance_loop(words, n, idx + 1,
            IF word > 0 /\ word_weight < distance
            THEN word_weight ELSE distance)

\* as distance_loop, without the test word > 0
RECURSIVE distance_loop_zero(_, _, _, _)
distance_loop_zero(words, n, idx, distance) ==
  IF idx > Len(words) THEN distance
  ELSE LET word == words[idx]
           word_weight == hamming_distance(0, word, n)
       IN distance_loop_zero(words, n, idx + 1,
            IF word_weight < distance THEN word_weight ELSE distance)

build_min_distance_zero(words, n) == distance_loop_zero(words, n, 1, UINT_MAX)

\* min_distance after the second loop of the constructor
build_min_distance(words, n) == distance_loop(words, n, 1, UINT_MAX)

MAX_BURST_LENGTH == 3

----------------------------------------------------------------------------
(* The encoder.                                                            *)

\* as encode_loop, place i selecting row i
RECURSIVE encode_loop_forward(_, _, _, _)
encode_loop_forward(word, G, place_value, encoded_word) ==
  IF place_value < Len(G)
  THEN encode_loop_forward(word, G, place_value + 1,
         IF Bit(word, place_value) = 1
         THEN Xor(encoded_word, G[place_value + 1])
         ELSE encoded_word)
  ELSE encoded_word

RECURSIVE encode_loop(_, _, _, _)
encode_loop(word, G, place_value, encoded_word) ==
  IF place_value < Len(G)
  THEN encode_loop(word, G, place_value + 1,
         IF Bit(word, place_value) = 1
         THEN Xor(encoded_word, G[(Len(G) - 1 - place_value) + 1])
         ELSE encoded_word)
  ELSE encoded_word

encode_word_forward(word, G) == encode_loop_forward(word, G, 0, 0)

encode_word(word, G) == encode_loop(word, G, 0, 0)

----------------------------------------------------------------------------
(* Transpose, cyclic shifts, syndromes, burst length.                      *)

RECURSIVE transpose_row(_, _, _, _)
transpose_row(matrix, col, old_row, acc) ==
  IF old_row < Len(matrix)
  THEN transpose_row(matrix, col, old_row + 1,
         IF Bit(matrix[old_row + 1], col) = 1
         THEN Wrap(acc + find_power(2, Len(matrix) - old_row - 1))
         ELSE acc)
  ELSE acc

\* entry new_row = n - col - 1 collects column col of the matrix, the first
\* row of the matrix in the highest place
get_transpose(matrix, n) ==
  Vector([new_row1 \in 1..n |-> transpose_row(matrix, n - new_row1, 0, 0)])

\* bit_place_values: the set bits among the low word_length places.  The
\* source keeps them in a vector; only their sum of powers, their first and
\* their last entry are used, so the model keeps the set.
bit_place_values(word, word_length) ==
  {i \in 0..(word_length - 1) : Bit(word, i) = 1}

RECURSIVE places_to_word(_)
places_to_word(places) ==
  IF places = {} THEN 0
  ELSE LET p == CHOOSE x \in places : TRUE
       IN Wrap(find_power(2, p) + places_to_word(places \ {p}))

\* the places after i steps of ( place + 1 ) % word_length
shift_places(places, i, word_length) ==
  {(p + i) % word_length : p \in places}

\* entry 0 is the word itself; entry i is the word's low word_length bits
\* moved up by i places, cyclically
get_cyclic_shifts(word, word_length) ==
  Vector([i1 \in 1..(IF word_length > 1 THEN word_length ELSE 1) |->
     IF i1 = 1 THEN word
     ELSE places_to_word(shift_places(bit_place_values(word, word_length),
                                      i1 - 1, word_length))])

\* as syndrome_loop, bit place_value selecting entry place_value
RECURSIVE syndrome_loop_forward(_, _, _, _)
syndrome_loop_forward(shifted_word, T, place_value, syndrome) ==
  IF place_value < Len(T)
  THEN syndrome_loop_forward(shifted_word, T, place_value + 1,
         IF Bit(shifted_word, place_value) = 1
         THEN Xor(syndrome, T[place_value + 1])
         ELSE syndrome)
  ELSE syndrome

RECURSIVE syndrome_loop(_, _, _, _)
syndrome_loop(shifted_word, T, place_value, syndrome) ==
  IF place_value < Len(T)
  THEN syndrome_loop(shifted_word, T, place_value + 1,
         IF Bit(shifted_word, place_value) = 1
         THEN Xor(syndrome, T[(Len(T) - 1 - place_value) + 1])
         ELSE syndrome)
  ELSE syndrome

\* the syndromes of a list of words against the transposed parity check
syndromes_with(shifts, parity_transpose) ==
  Vector([i1 \in 1..Len(shifts) |->
            syndrome_loop(shifts[i1], parity_transpose, 0, 0)])

syndromes_of(shifts, H, n) == syndromes_with(shifts, get_transpose(H, n))

\* Strategy A: the syndromes of the shifts in the order they are made
syndromes_A(received_word, H, n) ==
  syndromes_of(get_cyclic_shifts(received_word, n), H, n)

\* Strategy B: the shifts are reordered first: entry 0, then the last
\* shift down to the first
\* as reorder_shifts, the shifts left in the order they were made
reorder_shifts_none(cyclic_shifts) == cyclic_shifts

reorder_shifts(cyclic_shifts) ==
  Vector([i1 \in 1..Len(cyclic_shifts) |->
            IF i1 = 1 THEN cyclic_shifts[1]
            ELSE cyclic_shifts[Len(cyclic_shifts) - i1 + 2]])

get_syndromes(received_word, H, n) ==
  syndromes_of(reorder_shifts(get_cyclic_shifts(received_word, n)), H, n)

SetMax(S) == CHOOSE x \in S : \A y \in S : y <= x

SetMin(S) == CHOOSE x \in S : \A y \in S : x <= y

smaller(a, b) == IF a < b THEN a ELSE b

\* as next_burst, the span of the shift at hand replacing the one kept
next_burst_last(places, burst_length) ==
  IF places # {}
  THEN SetMax(places) - SetMin(places) + 1
  ELSE 0

\* one round of the loop of get_burst_length, from the places of a shift
next_burst(places, burst_length) ==
  IF places # {}
  THEN smaller(SetMax(places) - SetMin(places) + 1, burst_length)
  ELSE 0

RECURSIVE burst_loop(_, _, _, _)
burst_loop(cyclic_shifts, syndrome_length, j1, burst_length) ==
  IF j1 > Len(cyclic_shifts) THEN burst_length
  ELSE burst_loop(cyclic_shifts, syndrome_length, j1 + 1,
         next_burst(bit_place_values(cyclic_shifts[j1], syndrome_length),
                    burst_length))

get_burst_length(syndrome, syndrome_length) ==
  burst_loop(get_cyclic_shifts(syndrome, syndrome_length),
             syndrome_length, 1, UINT_MAX)

----------------------------------------------------------------------------
(* Nearest neighbour decoding: the fallback of Strategy A and the          *)
(* nearest_neighbor method of cyclic_codes_2.h.                            *)

received_word_coset(received_word, words) ==
  Vector([i1 \in 1..Len(words) |-> Xor(received_word, words[i1])])

\* as least_weight_loop, with <= where the source has <
RECURSIVE least_weight_loop_last(_, _, _, _, _)
least_weight_loop_last(coset, n, i1, least_hw, error_word) ==
  IF i1 > Len(coset) THEN error_word
  ELSE LET this_hw == hamming_distance(0, coset[i1], n)
       IN IF this_hw <= least_hw
          THEN least_weight_loop_last(coset, n, i1 + 1, this_hw, coset[i1])
          ELSE least_weight_loop_last(coset, n, i1 + 1, least_hw,
                                      error_word)

RECURSIVE least_weight_loop(_, _, _, _, _)
least_weight_loop(coset, n, i1, least_hw, error_word) ==
  IF i1 > Len(coset) THEN error_word
  ELSE LET this_hw == hamming_distance(0, coset[i1], n)
       IN IF this_hw < least_hw
          THEN least_weight_loop(coset, n, i1 + 1, this_hw, coset[i1])
          ELSE least_weight_loop(coset, n, i1 + 1, least_hw, error_word)

\* as least_weight, the loop never replacing the first coset word
least_weight_first(coset, n) == coset[1]

least_weight(coset, n) ==
  least_weight_loop(coset, n, 1, UINT_MAX, coset[1])

\* received_word_coset.at( 0 ) exists: the zero word passes every parity test
nearest_neighbor(received_word, words, n) ==
  Xor(received_word,
      least_weight(received_word_coset(received_word, words), n))

----------------------------------------------------------------------------
(* decode_word of cyclic_codes.h (Strategy A).                             *)

\* as light_search, with < where the source has <=
RECURSIVE light_search_strict(_, _, _, _)
light_search_strict(syndromes, bound, n, which_syndrome) ==
  IF which_syndrome < Len(syndromes)
  THEN IF hamming_distance(0, syndromes[which_syndrome + 1], n) < bound
       THEN which_syndrome
       ELSE light_search_strict(syndromes, bound, n, which_syndrome + 1)
  ELSE which_syndrome

\* the index of the first syndrome of weight <= bound, or Len(syndromes)
RECURSIVE light_search(_, _, _, _)
light_search(syndromes, bound, n, which_syndrome) ==
  IF which_syndrome < Len(syndromes)
  THEN IF hamming_distance(0, syndromes[which_syndrome + 1], n) <= bound
       THEN which_syndrome
       ELSE light_search(syndromes, bound, n, which_syndrome + 1)
  ELSE which_syndrome

\* the light syndrome moved to the high places, then every place moved up
\* by shift_amount, cyclically
realign_A(light_syndrome, shift_amount, n) ==
  places_to_word(
    {(p + shift_amount) % n : p \in bit_place_values(light_syndrome, n)})

\* decode_word from the end of the search on
correct_A(received_word, syndromes, which_syndrome, H, n, words) ==
  IF ~(which_syndrome < Len(syndromes))
  THEN [word |-> nearest_neighbor(received_word, words, n),
        path |-> "nearest_neighbor", which |-> which_syndrome]
  ELSE [word |-> Xor(received_word,
                     realign_A(ShiftLeft(syndromes[which_syndrome + 1],
                                         n - Len(H)),
                               n - which_syndrome, n)),
        path |-> "syndrome", which |-> which_syndrome]

\* decode_word from the search on; bound = ( min_distance - 1 ) / 2
search_A(received_word, syndromes, H, n, words, dmin) ==
  correct_A(received_word, syndromes,
            light_search(syndromes, Wrap(dmin - 1) \div 2, n, 0),
            H, n, words)

decode_word_A(received_word, H, n, words, dmin) ==
  search_A(received_word, syndromes_A(received_word, H, n), H, n, words,
           dmin)

----------------------------------------------------------------------------
(* decode_word of cyclic_codes_2.h (Strategy B).                           *)

\* as burst_scan, the loop not stopping at the syndrome found
RECURSIVE burst_scan_last(_, _, _, _, _)
burst_scan_last(syndromes, lengths, desired, which_syndrome, st) ==
  IF which_syndrome < Len(syndromes)
  THEN burst_scan_last(syndromes, lengths, desired, which_syndrome + 1,
         IF lengths[which_syndrome + 1] = desired
         THEN [st EXCEPT !.found = TRUE,
                         !.light_syndrome = syndromes[which_syndrome + 1],
                         !.pos = which_syndrome]
         ELSE st)
  ELSE st

\* the inner while loop: runs only while nothing has been found
RECURSIVE burst_scan(_, _, _, _, _)
burst_scan(syndromes, lengths, desired, which_syndrome, st) ==
  IF ~st.found /\ which_syndrome < Len(syndromes)
  THEN burst_scan(syndromes, lengths, desired, which_syndrome + 1,
         IF lengths[which_syndrome + 1] = desired
         THEN [st EXCEPT !.found = TRUE,
                         !.light_syndrome = syndromes[which_syndrome + 1],
                         !.pos = which_syndrome]
         ELSE st)
  ELSE st

\* as burst_search, the loop ending when the counter reaches zero
RECURSIVE burst_search_no_zero(_, _, _, _)
burst_search_no_zero(syndromes, lengths, desired, st) ==
  IF desired # 0
  THEN burst_search_no_zero(syndromes, lengths, Wrap(desired - 1),
         [burst_scan(syndromes, lengths, desired, 0, st)
            EXCEPT !.rounds = Append(@, desired)])
  ELSE st

\* as burst_search, the counter decremented before the scan of the round
RECURSIVE burst_search_decrement_first(_, _, _, _)
burst_search_decrement_first(syndromes, lengths, desired, st) ==
  IF desired # UINT_MAX
  THEN burst_search_decrement_first(syndromes, lengths, Wrap(desired - 1),
         [burst_scan(syndromes, lengths, Wrap(desired - 1), 0, st)
            EXCEPT !.rounds = Append(@, Wrap(desired - 1))])
  ELSE st

\* the outer while loop: the counter is a uint and the loop ends when it
\* wraps below zero
RECURSIVE burst_search(_, _, _, _)
burst_search(syndromes, lengths, desired, st) ==
  IF desired # UINT_MAX
  THEN burst_search(syndromes, lengths, Wrap(desired - 1),
         [burst_scan(syndromes, lengths, desired, 0, st)
            EXCEPT !.rounds = Append(@, desired)])
  ELSE st

\* the loop "for i = 1 .. shift_amount": one place down, the low bit wraps
\* to place n - 1
RECURSIVE rotate_down(_, _, _, _)
rotate_down(light_syndrome, shift_amount, n, i) ==
  IF i <= shift_amount
  THEN rotate_down(
         IF light_syndrome % 2 = 1
         THEN Wrap((light_syndrome \div 2) + find_power(2, n - 1))
         ELSE light_syndrome \div 2,
         shift_amount, n, i + 1)
  ELSE light_syndrome

\* as correct_B, the failure branch returning decoded_word (still 0)
correct_B_zero(received_word, st, H, n) ==
  IF ~st.found
  THEN [word |-> 0, path |-> "failure", which |-> 0, rounds |-> st.rounds]
  ELSE [word |-> Xor(received_word,
                     rotate_down(ShiftLeft(st.light_syndrome, n - Len(H)),
                                 n - st.pos, n, 1)),
        path |-> "syndrome", which |-> st.pos, rounds |-> st.rounds]

\* decode_word from the end of the search on
correct_B(received_word, st, H, n) ==
  IF ~st.found
  THEN [word |-> received_word, path |-> "failure", which |-> 0,
        rounds |-> st.rounds]
  ELSE [word |-> Xor(received_word,
                     rotate_down(ShiftLeft(st.light_syndrome, n - Len(H)),
                                 n - st.pos, n, 1)),
        path |-> "syndrome", which |-> st.pos, rounds |-> st.rounds]

syndrome_burst_lengths(syndromes, H) ==
  Vector([k1 \in 1..Len(syndromes) |->
            get_burst_length(syndromes[k1], Len(H))])

\* decode_word from the burst lengths on
search_B(received_word, syndromes, H, n, mbl) ==
  correct_B(received_word,
            burst_search(syndromes, syndrome_burst_lengths(syndromes, H),
                         mbl,
                         [found |-> FALSE, light_syndrome |-> 0,
                          pos |-> 0, rounds |-> <<>>]),
            H, n)

decode_word_B(received_word, H, n, mbl) ==
  search_B(received_word, get_syndromes(received_word, H, n), H, n, mbl)

----------------------------------------------------------------------------
(* The codes the object is constructed from.                               *)

MaxParityRows == 2

MaxGenRows == 2

ExtraBits == 1

Words(n) == 0..(2^n - 1)

SeqsUpTo(S, k) == UNION {[1..m -> S] : m \in 0..k}

Code(G, H, n) == [G |-> G, H |-> H, n |-> n]

FreeLengths == {2, 3}

\* every parity check matrix of up to MaxParityRows rows, no generator.
\* The matrix has n - k rows, at most n: decode_word shifts by n minus the
\* number of rows, an unsigned count that is out of range with more rows.
ParityCodes ==
  UNION {{Code(<<>>, H, n) :
            H \in {M \in SeqsUpTo(Words(n), MaxParityRows) : Len(M) <= n}} :
         n \in FreeLengths}

\* every generator matrix of up to MaxGenRows rows over the whole space
GeneratorCodes ==
  UNION {{Code(G, <<>>, n) : G \in SeqsUpTo(Words(n), MaxGenRows)} :
         n \in FreeLengths}

\* cyclic codes with a generator matrix of codewords
Repetition3 == Code(<<7>>, <<3, 5>>, 3)

Repetition3High == Code(<<7>>, <<5, 3>>, 3)

EvenWeight3 == Code(<<3, 6>>, <<7>>, 3)

Repetition5 == Code(<<31>>, <<17, 9, 5, 3>>, 5)

Cyclic6 == Code(<<21, 42>>, <<40, 20, 10, 5>>, 6)

Hamming7 == Code(<<11, 22, 44, 88>>, <<116, 58, 29>>, 7)

Hamming7High == Code(<<11, 22, 44, 88>>, <<78, 39, 29>>, 7)

ZeroCode6 == Code(<<>>, <<32, 16, 8, 4, 2, 1>>, 6)

\* a code that is not cyclic, with a generator matrix of codewords
NotCyclic4 == Code(<<3, 5>>, <<8, 7>>, 4)

\* a generator matrix whose rows are not all codewords
BadGenerator3 == Code(<<7, 1>>, <<3, 5>>, 3)

NamedCodes ==
  {Repetition3, Repetition3High, EvenWeight3, Repetition5, Cyclic6,
   Hamming7, Hamming7High, ZeroCode6, NotCyclic4, BadGenerator3}

Codes == ParityCodes \cup GeneratorCodes \cup NamedCodes

\* the codes of the runs that keep an earlier call for comparison
MemCodes ==
  {Repetition3, Repetition3High, EvenWeight3, NotCyclic4, BadGenerator3}

----------------------------------------------------------------------------
(* The object and its caller.  Every method runs to its return in one      *)
(* step; the caller then takes the result and may call again.              *)

\* mem: no call kept yet / no call is ever kept
NoCall == [op |-> "none", arg |-> 0, ret |-> 0, past |-> FALSE]

Untracked == [op |-> "untracked", arg |-> 0, ret |-> 0, past |-> FALSE]

Construct(c) ==
  /\ generator = c.G
  /\ parity_check = c.H
  /\ code_length = c.n
  /\ code_words = build_code_words(c.H, c.n)
  /\ min_distance = build_min_distance(build_code_words(c.H, c.n), c.n)
  /\ max_burst_length = MAX_BURST_LENGTH
  /\ built = fields
  /\ pc = "idle"
  /\ op = "none"
  /\ arg = 0
  /\ ret = 0
  /\ path = "none"
  /\ which = 0
  /\ rounds = <<>>

Init ==
  /\ \E c \in Codes : Construct(c)
  /\ mem = Untracked

InitMem ==
  /\ \E c \in MemCodes : Construct(c)
  /\ mem = NoCall

\* the call just made may be kept for comparison, once
Remembered(call) ==
  IF mem.op = "none" THEN {mem, call} ELSE {mem}

Returns(name, a, r, p, w, k) ==
  /\ pc' = "returned"
  /\ op' = name
  /\ arg' = a
  /\ ret' = r
  /\ path' = p
  /\ which' = w
  /\ rounds' = k
  /\ mem' \in Remembered([op |-> name, arg |-> a, ret |-> r,
                           past |-> FALSE])
  /\ UNCHANGED built

\* as ConstCall, the method keeping its argument in code_words
CachingCall(name, a, r, p, w, k) ==
  /\ Returns(name, a, r, p, w, k)
  /\ code_words' = Append(code_words, a)
  /\ UNCHANGED <<generator, parity_check, code_length, min_distance,
                 max_burst_length>>

\* every method is const: the members are left alone
ConstCall(name, a, r, p, w, k) ==
  /\ Returns(name, a, r, p, w, k)
  /\ UNCHANGED fields

EncodeWord ==
  /\ pc = "idle"
  /\ \E word \in Words(Len(generator) + ExtraBits) :
       ConstCall("encode_word", word, encode_word(word, generator),
                 "none", 0, <<>>)

DecodeWordA ==
  /\ pc = "idle"
  /\ \E received_word \in Words(code_length) :
       \E d \in {decode_word_A(received_word, parity_check, code_length,
                               code_words, min_distance)} :
         ConstCall("decode_word_A", received_word, d.word, d.path,
                   d.which, <<>>)

DecodeWordB ==
  /\ pc = "idle"
  /\ \E received_word \in Words(code_length) :
       \E d \in {decode_word_B(received_word, parity_check, code_length,
                               max_burst_length)} :
         ConstCall("decode_word_B", received_word, d.word, d.path,
                   d.which, d.rounds)

NearestNeighbor ==
  /\ pc = "idle"
  /\ \E received_word \in Words(code_length) :
       ConstCall("nearest_neighbor", received_word,
                 nearest_neighbor(received_word, code_words, code_length),
                 "none", 0, <<>>)

IsCodeWord ==
  /\ pc = "idle"
  /\ \E word \in Words(code_length) :
       ConstCall("is_code_word", word,
                 is_code_word(word, parity_check, code_length),
                 "none", 0, <<>>)

GetCodeWords ==
  /\ pc = "idle"
  /\ ConstCall("get_code_words", 0, code_words, "none", 0, <<>>)

GetGenerator ==
  /\ pc = "idle"
  /\ ConstCall("get_generator", 0, generator, "none", 0, <<>>)

GetCodeLength ==
  /\ pc = "idle"
  /\ ConstCall("get_code_length", 0, code_length, "none", 0, <<>>)

\* the caller takes the returned value; the object is ready for a call
TakeResult ==
  /\ pc = "returned"
  /\ pc' = "idle"
  /\ op' = "none"
  /\ arg' = 0
  /\ ret' = 0
  /\ path' = "none"
  /\ which' = 0
  /\ rounds' = <<>>
  /\ mem' = IF mem.op \in {"none", "untracked"} THEN mem
            ELSE [mem EXCEPT !.past = TRUE]
  /\ UNCHANGED <<fields, built>>

Next ==
  \/ EncodeWord
  \/ DecodeWordA
  \/ DecodeWordB
  \/ NearestNeighbor
  \/ IsCodeWord
  \/ GetCodeWords
  \/ GetGenerator
  \/ GetCodeLength
  \/ TakeResult

Spec == Init /\ [][Next]_vars

SpecMem == InitMem /\ [][Next]_vars

----------------------------------------------------------------------------
(* Vocabulary of the properties.                                           *)

CodeBook == {code_words[i] : i \in 1..Len(code_words)}

Rows(M) == {M[i] : i \in 1..Len(M)}

Places(w, n) == {i \in 0..(n - 1) : Bit(w, i) = 1}

Weight(w) == Cardinality(Places(w, code_length))

Distance(a, b) ==
  Cardinality({i \in 0..(code_length - 1) : Bit(a, i) # Bit(b, i)})

\* the word with its n bits moved up by one place, the top bit to place 0
RotateLeft(w, n) == ((2 * w) % (2^n)) + (w \div (2^(n - 1)))

IsCyclic == \A c \in CodeBook : RotateLeft(c, code_length) \in CodeBook

GeneratorInCode == Rows(generator) \subseteq CodeBook

Encoded == {encode_word(m, generator) : m \in Words(Len(generator))}

Returned(name) == pc = "returned" /\ op = name

Span(S) == SetMax(S) - SetMin(S) + 1

\* the shortest span of the set bits of e over the n rotations of e
CyclicBurst(e, n) ==
  IF Places(e, n) = {} THEN 0
  ELSE SetMin({Span({(p + k) % n : p \in Places(e, n)}) : k \in 0..(n - 1)})

IsRepetition3 ==
  generator = <<7>> /\ parity_check = <<3, 5>> /\ code_length = 3

----------------------------------------------------------------------------
(* C1: decoding an encoded message of a cyclic code whose generator rows   *)
(* are codewords returns that codeword, by an accepted syndrome, under     *)
(* both decode_word bodies.                                                *)
RoundTrip ==
  (/\ pc = "returned"
   /\ op \in {"decode_word_A", "decode_word_B"}
   /\ IsCyclic
   /\ GeneratorInCode
   /\ arg \in Encoded)
  => (ret = arg /\ path = "syndrome")

RoundTripWitness ==
  /\ Returned("decode_word_B")
  /\ IsCyclic
  /\ GeneratorInCode
  /\ Len(parity_check) > 1
  /\ arg \in Encoded
  /\ arg # 0
  /\ ret = arg
  /\ path = "syndrome"

(* C2: under Strategy A, a codeword c with an error of weight at most      *)
(* (d_min - 1) / 2 added decodes to c.                                     *)
WeightCapabilityA ==
  (/\ Returned("decode_word_A")
   /\ IsCyclic
   /\ GeneratorInCode
   /\ Len(code_words) > 1)
  => \A c \in CodeBook :
       Weight(Xor(arg, c)) <= (min_distance - 1) \div 2 => ret = c

(* C3: under Strategy B, a codeword c with an error of cyclic burst length *)
(* at most max_burst_length added decodes to c, by an accepted syndrome.   *)
(* It is stated for the errors that are also lighter than half the         *)
(* minimum distance, for which c is the one codeword nearest to the        *)
(* received word.                                                          *)
BurstCapabilityB ==
  (/\ Returned("decode_word_B")
   /\ IsCyclic
   /\ GeneratorInCode
   /\ Len(code_words) > 1)
  => \A c \in CodeBook :
       (/\ CyclicBurst(Xor(arg, c), code_length) <= max_burst_length
        /\ 2 * Weight(Xor(arg, c)) < min_distance)
       => (ret = c /\ path = "syndrome")

\* the burst lengths of the syndromes of the received word, Strategy B
BurstLengthsOf(received_word) ==
  {get_burst_length(
     get_syndromes(received_word, parity_check, code_length)[i],
     Len(parity_check)) : i \in 1..code_length}

(* C4: under Strategy B, when no syndrome of the received word has a burst *)
(* length in 0 .. max_burst_length, decode_word takes the failure branch   *)
(* and returns the received word unchanged.                                *)
DecodeFailureB ==
  (/\ Returned("decode_word_B")
   /\ BurstLengthsOf(arg) \cap (0..max_burst_length) = {})
  => (path = "failure" /\ ret = arg)

DecodeFailureBWitness ==
  /\ Returned("decode_word_B")
  /\ BurstLengthsOf(arg) \cap (0..max_burst_length) = {}
  /\ arg # 0
  /\ path = "failure"
  /\ ret = arg

(* C5: the nearest neighbour decoder (the method of cyclic_codes_2.h and   *)
(* the fallback of Strategy A) returns a codebook member at least as close *)
(* to the received word as every codebook member; the zero word is in the  *)
(* codebook; for the repetition code it returns 0b111 for 0b011.           *)
NearestNeighborOptimal ==
  /\ 0 \in CodeBook
  /\ (Returned("nearest_neighbor")
      \/ (Returned("decode_word_A") /\ path = "nearest_neighbor"))
     => /\ ret \in CodeBook
        /\ \A c \in CodeBook : Distance(arg, ret) <= Distance(arg, c)
  /\ (Returned("nearest_neighbor") /\ IsRepetition3 /\ arg = 3) => ret = 7

NearestNeighborWitness ==
  /\ Returned("nearest_neighbor")
  /\ IsRepetition3
  /\ arg = 3
  /\ ret = 7

\* bit b of the sum over GF(2) of the rows G[k-1-i] selected by the low k
\* bits of m (row k-1-i of the source is entry k-i of the sequence)
SelectedRowsBit(m, b) ==
  Cardinality({i \in 0..(Len(generator) - 1) :
                 Bit(m, i) = 1 /\ Bit(generator[Len(generator) - i], b) = 1})
  % 2

(* C6: encode_word(m) is the sum over GF(2) of the generator rows G[k-1-i] *)
(* for the set bits i < k of m, the higher bits of m being ignored, and is *)
(* a codebook member when every generator row is one.                      *)
EncoderMapping ==
  Returned("encode_word")
  => /\ \A b \in 0..(UintWidth - 1) : Bit(ret, b) = SelectedRowsBit(arg, b)
     /\ ret < 2^UintWidth
     /\ GeneratorInCode => ret \in CodeBook

EncoderMappingWitness ==
  /\ Returned("encode_word")
  /\ Len(generator) = 2
  /\ generator[1] # generator[2]
  /\ Len(parity_check) > 0
  /\ GeneratorInCode
  /\ arg = 5
  /\ ret = generator[2]

(* C7: the codebook contains the zero word and the sum over GF(2) of any   *)
(* two of its members.                                                     *)
CodebookLinear ==
  /\ 0 \in CodeBook
  /\ \A a \in CodeBook : \A b \in CodeBook : Xor(a, b) \in CodeBook

CodebookLinearWitness ==
  /\ Len(parity_check) = 2
  /\ parity_check[1] # parity_check[2]
  /\ Len(code_words) = 2
  /\ code_length = 3
  /\ generator = <<>>

\* the parity test: an even number of common set bits with every row of H
PassesParity(w) ==
  \A h \in Rows(parity_check) :
    Cardinality(Places(w, code_length) \cap Places(h, code_length)) % 2 = 0

(* C8: is_code_word(w) is true exactly for the members of the codebook,    *)
(* and the codebook lists the words below 2^n that pass the parity test,   *)
(* each once, in increasing order.                                         *)
MembershipConsistent ==
  /\ Returned("is_code_word") => (ret <=> arg \in CodeBook)
  /\ CodeBook = {w \in Words(code_length) : PassesParity(w)}
  /\ \A i \in 1..Len(code_words) : \A j \in 1..Len(code_words) :
       i < j => code_words[i] < code_words[j]

MembershipWitness ==
  /\ Returned("is_code_word")
  /\ Len(parity_check) > 1
  /\ arg # 0
  /\ arg \in CodeBook
  /\ ret = TRUE

(* C9: min_distance is the least weight of a nonzero codebook member, which *)
(* is the least distance between two distinct members, and UINT_MAX when   *)
(* the codebook holds the zero word only.                                  *)
MinDistanceCorrect ==
  IF CodeBook \ {0} = {}
  THEN min_distance = UINT_MAX
  ELSE /\ min_distance = SetMin({Weight(c) : c \in CodeBook \ {0}})
       /\ min_distance =
            SetMin({Distance(pair[1], pair[2]) :
                      pair \in {q \in CodeBook \X CodeBook : q[1] # q[2]}})

MinDistanceWitness ==
  /\ Len(code_words) = 16
  /\ code_length = 7
  /\ min_distance = 3

Dot(w, h) ==
  Cardinality(Places(w, code_length) \cap Places(h, code_length)) % 2

\* s is the product of the parity check matrix with w: r bits, row i of
\* the matrix (counted from 0) in place r - 1 - i
IsParityProduct(s, w) ==
  /\ s < 2^Len(parity_check)
  /\ \A i \in 0..(Len(parity_check) - 1) :
       Bit(s, Len(parity_check) - 1 - i) = Dot(w, parity_check[i + 1])

RECURSIVE RotateLeftBy(_, _, _)
RotateLeftBy(w, n, i) ==
  IF i = 0 THEN w ELSE RotateLeftBy(RotateLeft(w, n), n, i - 1)

\* the syndrome list decode_word computed for the call that has returned
SyndromeList ==
  IF op = "decode_word_A"
  THEN syndromes_A(arg, parity_check, code_length)
  ELSE get_syndromes(arg, parity_check, code_length)

DecodeReturned ==
  pc = "returned" /\ op \in {"decode_word_A", "decode_word_B"}

(* C11: the syndrome decode_word computes for the received word, under     *)
(* both bodies, has in place r - 1 - i the dot product over GF(2) of the   *)
(* word with row i of the parity check matrix; it is zero exactly when     *)
(* is_code_word holds of the word.                                         *)
SyndromeIsParityProduct ==
  DecodeReturned
  => /\ IsParityProduct(SyndromeList[1], arg)
     /\ SyndromeList[1] = 0
        <=> is_code_word(arg, parity_check, code_length)

SyndromeIsParityProductWitness ==
  /\ Returned("decode_word_A")
  /\ Len(parity_check) = 3
  /\ SyndromeList[1] = 4
  /\ Dot(arg, parity_check[1]) = 1
  /\ Dot(arg, parity_check[2]) = 0
  /\ Dot(arg, parity_check[3]) = 0
  /\ ~is_code_word(arg, parity_check, code_length)

(* C12: entry i of the syndrome list of decode_word is the syndrome of the *)
(* received word rotated left by i places within n bits, under both        *)
(* bodies.                                                                 *)
SyndromeOrdering ==
  DecodeReturned
  => \A i \in 0..(code_length - 1) :
       IsParityProduct(SyndromeList[i + 1],
                       RotateLeftBy(arg, code_length, i))

(* C12 as amended: under cyclic_codes.h entry i is the syndrome of the     *)
(* received word rotated left by i places; under cyclic_codes_2.h entry 0  *)
(* is the syndrome of the received word and entry i >= 1 the syndrome of   *)
(* the received word rotated left by n - i places, that is right by i.     *)
SyndromeOrderingByStrategy ==
  /\ Returned("decode_word_A")
     => \A i \in 0..(code_length - 1) :
          IsParityProduct(SyndromeList[i + 1],
                          RotateLeftBy(arg, code_length, i))
  /\ Returned("decode_word_B")
     => /\ IsParityProduct(SyndromeList[1], arg)
        /\ \A i \in 1..(code_length - 1) :
             IsParityProduct(SyndromeList[i + 1],
                             RotateLeftBy(arg, code_length,
                                          code_length - i))

SyndromeOrderingWitness ==
  /\ Returned("decode_word_B")
  /\ code_length = 7
  /\ arg = 1
  /\ IsParityProduct(SyndromeList[2], 64)
  /\ ~IsParityProduct(SyndromeList[2], 2)

\* the burst lengths decode_word of cyclic_codes_2.h computed, one for each
\* entry of the syndrome list
BurstLengthList == syndrome_burst_lengths(SyndromeList, parity_check)

\* the burst lengths the search can ask for that some syndrome has
Eligible(lengths) ==
  {lengths[i] : i \in 1..Len(lengths)} \cap (0..max_burst_length)

(* C13: decode_word of cyclic_codes_2.h selects the syndrome of the lowest *)
(* index among those whose burst length is the largest value of            *)
(* 0 .. max_burst_length that some syndrome has; no syndrome of a smaller  *)
(* burst length replaces it.                                               *)
BurstSelection ==
  Returned("decode_word_B")
  => \A lengths \in {BurstLengthList} :
       Eligible(lengths) # {}
       => /\ path = "syndrome"
          /\ lengths[which + 1] = SetMax(Eligible(lengths))
          /\ \A i \in 0..(code_length - 1) :
               lengths[i + 1] = SetMax(Eligible(lengths)) => which <= i

BurstSelectionWitness ==
  /\ Returned("decode_word_B")
  /\ path = "syndrome"
  /\ which > 0
  /\ \E lengths \in {BurstLengthList} :
       /\ lengths[1] < lengths[which + 1]
       /\ \E i \in (which + 1)..(code_length - 1) :
            lengths[i + 1] = lengths[which + 1]

\* the number of set bits of a syndrome
SyndromeWeight(s) == Cardinality(Places(s, Len(parity_check)))

\* the indices of the syndromes within the bound of cyclic_codes.h
Light(syndromes) ==
  {i \in 0..(Len(syndromes) - 1) :
     SyndromeWeight(syndromes[i + 1]) <= (min_distance - 1) \div 2}

(* C14: decode_word of cyclic_codes.h accepts the syndrome of the lowest   *)
(* index among those of weight at most (min_distance - 1) / 2; exactly     *)
(* when there is none it returns the nearest neighbour, a codebook member. *)
(* The parity check matrix has n - k rows, at most n.                      *)
WeightSelectionA ==
  (Returned("decode_word_A") /\ Len(parity_check) <= code_length)
  => \A light \in {Light(SyndromeList)} :
       /\ light # {} => (path = "syndrome" /\ which = SetMin(light))
       /\ light = {}
          => /\ path = "nearest_neighbor"
             /\ ret \in CodeBook
             /\ \A c \in CodeBook : Distance(arg, ret) <= Distance(arg, c)

WeightSelectionAWitness ==
  /\ Returned("decode_word_A")
  /\ Len(parity_check) <= code_length
  /\ path = "syndrome"
  /\ which > 0
  /\ \E syndromes \in {SyndromeList} :
       /\ which = SetMin(Light(syndromes))
       /\ SyndromeWeight(syndromes[which + 1]) = (min_distance - 1) \div 2
       /\ SyndromeWeight(syndromes[which + 1]) > 0

(* C15: the burst length search of cyclic_codes_2.h runs its outer loop    *)
(* max_burst_length + 1 times, for the desired lengths max_burst_length    *)
(* down to 0 in that order, and decode_word returns.                       *)
BurstSearchRounds ==
  Returned("decode_word_B")
  => /\ Len(rounds) = max_burst_length + 1
     /\ \A k \in 1..Len(rounds) : rounds[k] = max_burst_length - (k - 1)

BurstSearchRoundsWitness ==
  /\ Returned("decode_word_B")
  /\ path = "syndrome"
  /\ rounds = <<3, 2, 1, 0>>
  /\ Len(parity_check) = 3
  /\ get_burst_length(SyndromeList[which + 1], 3) = max_burst_length

(* C16: get_burst_length of a pattern of width r is 0 for the zero pattern *)
(* and otherwise the least span of the set bits over the r rotations of    *)
(* the pattern, between 1 and r, and the same for the rotated pattern.     *)
BurstLengthCorrect ==
  (Returned("decode_word_B") /\ Len(parity_check) >= 1)
  => \A s \in Rows(SyndromeList) :
       \A b \in {get_burst_length(s, Len(parity_check))} :
          /\ b = CyclicBurst(s, Len(parity_check))
          /\ s = 0 => b = 0
          /\ s # 0 => b \in 1..Len(parity_check)
          /\ get_burst_length(RotateLeft(s, Len(parity_check)),
                              Len(parity_check)) = b

BurstLengthWitness ==
  /\ Returned("decode_word_B")
  /\ Len(parity_check) = 6
  /\ arg = 49
  /\ 35 \in Rows(SyndromeList)
  /\ Span(Places(35, 6)) = 6
  /\ get_burst_length(35, 6) = 3

\* the codebook members nearest to the received word of the call
Nearest ==
  {c \in CodeBook : \A d \in CodeBook : Distance(arg, c) <= Distance(arg, d)}

(* C17: among several codebook members nearest to the received word the   *)
(* nearest neighbour decoder (the method of cyclic_codes_2.h and the       *)
(* fallback of cyclic_codes.h) returns the first in the order of the       *)
(* codebook, the smallest of them.                                         *)
NearestNeighborTieBreak ==
  (Returned("nearest_neighbor")
   \/ (Returned("decode_word_A") /\ path = "nearest_neighbor"))
  => \A nearest \in {Nearest} :
       /\ ret = SetMin(nearest)
       /\ \A i \in 1..Len(code_words) : \A j \in 1..Len(code_words) :
            (code_words[i] \in nearest /\ code_words[j] = ret) => j <= i

NearestNeighborTieBreakWitness ==
  /\ Returned("decode_word_A")
  /\ path = "nearest_neighbor"
  /\ ret # 0
  /\ \E nearest \in {Nearest} :
       /\ Cardinality(nearest) > 1
       /\ ret = SetMin(nearest)

====
